---------------------------- MODULE Spec2Model ----------------------------
(***************************************************************************)
(* Model of qwt/src/qwt_bezier_curve_fitter.cpp: the object-owned fitter   *)
(* QwtBezierSplineCurveFitter, the stateless fitter                        *)
(* QwtBezierSplineCurveFitter2 and the function qwtFitBezier with its      *)
(* helpers qwtLineLength, qwtBezierInterval and qwtBezierValue.            *)
(*                                                                         *)
(* Real numbers.  Coordinates are exact: a rational is a pair <<n, d>> in  *)
(* lowest terms with d > 0, a length is a surd c * sqrt(r) with r          *)
(* squarefree, and a computed y is a finite sum of surds.  Square roots of *)
(* distinct squarefree integers are linearly independent over the          *)
(* rationals, so two values are equal exactly when their representations   *)
(* are equal.  A division by zero yields a non-finite value.               *)
(*                                                                         *)
(* Doubles.  The sample grid x1 + i * delta of qwtFitBezier is also        *)
(* followed in IEEE 754 binary64, bit for bit, with the comparisons that   *)
(* move the segment cursor; see the binary64 section and SpecDouble.       *)
(***************************************************************************)
EXTENDS Integers, Sequences, FiniteSets, TLC

VARIABLES
    ip,            \* qwtBezierInterval: the arguments <<p0, p1, p2, p3>>
    ires,          \* qwtBezierInterval: what the call computed
    ipc,           \* qwtBezierInterval: "call" before, "done" after the call
    bpc,           \* qwtFitBezier: "idle", "call", "loop", "done", or "ub"
                   \* after a read past the end of the array
    points,        \* qwtFitBezier: the argument points
    numPoints,     \* qwtFitBezier: the argument numPoints
    i,             \* qwtFitBezier: the loop counter
    j,             \* qwtFitBezier: the segment cursor (0-based, as in the code)
    intv,          \* qwtFitBezier: the cached interval
    fittedPoints,  \* qwtFitBezier: the polygon under construction
    bresult,       \* qwtFitBezier: the polygon returned
    fma,           \* the build contracts x1 + i * delta into one fused multiply-add
    caller,        \* who called qwtFitBezier: "qwtFitBezier" for a direct call,
                   \* "fitCurve" for QwtBezierSplineCurveFitter2::fitCurve
    f1size,        \* QwtBezierSplineCurveFitter: d_data->splineSize
    f1req,         \* the argument of its last constructor or setSplineSize call
    f2size,        \* QwtBezierSplineCurveFitter2: d_data->splineSize
    f2req,         \* the argument of its last constructor or setSplineSize call
    spline,        \* QwtBezierSplineCurveFitter: d_data->spline
    sreset,        \* reset() was the last call made on d_data->spline
    spc,           \* fitCurve / fitSpline: "idle", "sampling" or "done"
    spoints,       \* fitCurve / fitSpline: the argument points
    si,            \* fitSpline: the loop counter
    sfitted,       \* fitSpline: fittedPoints
    sresult        \* fitCurve / fitSpline: the polygon returned

ivVars == <<ip, ires, ipc>>
bezVars == <<bpc, points, numPoints, i, j, intv, fittedPoints, bresult, caller>>
sizeVars == <<f1size, f1req, f2size, f2req>>
splineVars == <<spline, sreset>>
fitVars == <<spc, spoints, si, sfitted, sresult>>
buildVars == <<fma>>
vars == <<ivVars, bezVars, sizeVars, splineVars, fitVars, buildVars>>

----------------------------------------------------------------------------
(* Bounds of the model.                                                    *)

IvMaxX == 4
IvMaxY == 1
MaxX == 3
MaxPts == 5
MaxSamples == 8
MaxSize == 11

\* the y coordinates of the input points of qwtFitBezier
YCoords == 0..2

----------------------------------------------------------------------------
(* Exact rational arithmetic.                                              *)

Abs(a) == IF a < 0 THEN -a ELSE a

RECURSIVE Gcd(_, _)
Gcd(a, b) == IF b = 0 THEN a ELSE Gcd(b, a % b)

\* n / d in lowest terms with a positive denominator, given their gcd g
Reduced(n, d, g) == IF d < 0 THEN <<(-n) \div g, (-d) \div g>> ELSE <<n \div g, d \div g>>

Rat(n, d) == IF d = 1 THEN <<n, 1>> ELSE Reduced(n, d, Gcd(Abs(n), Abs(d)))

Zero == <<0, 1>>
One == <<1, 1>>
Int2Rat(n) == <<n, 1>>

RatNeg(a) == <<-a[1], a[2]>>

RatAdd(a, b) ==
    IF a[2] = b[2] THEN Rat(a[1] + b[1], a[2])
    ELSE Rat(a[1] * b[2] + b[1] * a[2], a[2] * b[2])

RatSub(a, b) == RatAdd(a, RatNeg(b))

RatMul(a, b) == Rat(a[1] * b[1], a[2] * b[2])

\* a / b for b # 0
RatDiv(a, b) == RatMul(a, Rat(b[2], b[1]))

RatLess(a, b) == a[1] * b[2] < b[1] * a[2]
RatLeq(a, b) == a[1] * b[2] <= b[1] * a[2]

----------------------------------------------------------------------------
(* Surds c * sqrt(r), c rational, r a squarefree positive integer; the     *)
(* result of a division by zero is not finite.                             *)

RECURSIVE SquarePart(_, _, _)
\* the largest k >= best with k * k dividing m, searched from k upwards
SquarePart(m, k, best) ==
    IF k * k > m THEN best
    ELSE SquarePart(m, k + 1, IF m % (k * k) = 0 THEN k ELSE best)

Surd(c, r) ==
    IF c = Zero \/ r = 0 THEN [fin |-> TRUE, c |-> Zero, r |-> 1]
    ELSE LET k == SquarePart(r, 1, 1)
         IN  [fin |-> TRUE, c |-> RatMul(c, Int2Rat(k)), r |-> r \div (k * k)]

NotFinite == [fin |-> FALSE, c |-> Zero, r |-> 1]

\* qSqrt of a rational q >= 0: sqrt(n/d) = sqrt(n*d) / d
qSqrt(q) == Surd(Rat(1, q[2]), q[1] * q[2])

SurdScale(q, s) == IF s.fin THEN Surd(RatMul(q, s.c), s.r) ELSE NotFinite

\* a < b for surds a, b >= 0: compare the squares
SurdLess(a, b) ==
    RatLess(RatMul(RatMul(a.c, a.c), Int2Rat(a.r)),
            RatMul(RatMul(b.c, b.c), Int2Rat(b.r)))

\* a / b for surds; x / 0 is not finite (inf or NaN in IEEE arithmetic)
SurdDiv(a, b) ==
    IF ~a.fin \/ ~b.fin \/ b.c = Zero THEN NotFinite
    ELSE Surd(RatDiv(a.c, RatMul(b.c, Int2Rat(b.r))), a.r * b.r)

----------------------------------------------------------------------------
(* Values: finite sums of surds, a set of terms <<r, c>> with distinct     *)
(* squarefree r and c # 0.                                                 *)

NaN == [fin |-> FALSE, t |-> {}]

Coef(t, r) == IF \E e \in t : e[1] = r THEN (CHOOSE e \in t : e[1] = r)[2] ELSE Zero

Num(t) == [fin |-> TRUE, t |-> t]

NumOfSurd(s) ==
    IF ~s.fin THEN NaN
    ELSE IF s.c = Zero THEN Num({}) ELSE Num({<<s.r, s.c>>})

NumOfRat(q) == NumOfSurd(Surd(q, 1))

NumAdd(a, b) ==
    IF ~a.fin \/ ~b.fin THEN NaN
    ELSE LET R == {e[1] : e \in a.t \cup b.t}
             sum(r) == RatAdd(Coef(a.t, r), Coef(b.t, r))
         IN  Num({<<r, sum(r)>> : r \in {q \in R : sum(q) # Zero}})

NumScale(q, a) ==
    IF ~a.fin THEN NaN
    ELSE IF q = Zero THEN Num({})
    ELSE Num({<<e[1], RatMul(q, e[2])>> : e \in a.t})

----------------------------------------------------------------------------
(* Points and the helpers of qwtFitBezier.                                 *)

Pt(x, y) == [x |-> Int2Rat(x), y |-> Int2Rat(y)]

qMax(a, b) == IF a < b THEN b ELSE a
qMin(a, b) == IF a < b THEN a ELSE b

qwtLineLength(p_start, p_end) ==
    LET dx == RatSub(p_start.x, p_end.x)
        dy == RatSub(p_start.y, p_end.y)
    IN  qSqrt(RatAdd(RatMul(dx, dx), RatMul(dy, dy)))

\* qwtBezierScales with the chords of the two mixed branches exchanged
qwtBezierScales_swapped(p0, p1, p2, p3) ==
    LET d02 == qwtLineLength(p0, p2)
        d13 == qwtLineLength(p1, p3)
        d12_2 == SurdScale(Rat(1, 2), qwtLineLength(p1, p2))
        b1 == SurdLess(SurdScale(Rat(1, 6), d02), d12_2)
        b2 == SurdLess(SurdScale(Rat(1, 6), d13), d12_2)
    IN  IF b1 /\ b2 THEN
            [b1 |-> b1, b2 |-> b2, branch |-> 1, divisors |-> {},
             s1 |-> IF p0 # p1 THEN Surd(Rat(1, 6), 1) ELSE Surd(Rat(1, 3), 1),
             s2 |-> IF p2 # p3 THEN Surd(Rat(1, 6), 1) ELSE Surd(Rat(1, 3), 1)]
        ELSE IF ~b1 /\ b2 THEN
            [b1 |-> b1, b2 |-> b2, branch |-> 2, divisors |-> {d13},
             s1 |-> SurdDiv(d12_2, d13),
             s2 |-> SurdDiv(d12_2, d13)]
        ELSE IF b1 /\ ~b2 THEN
            [b1 |-> b1, b2 |-> b2, branch |-> 3, divisors |-> {d02},
             s1 |-> SurdDiv(d12_2, d02),
             s2 |-> SurdDiv(d12_2, d02)]
        ELSE
            [b1 |-> b1, b2 |-> b2, branch |-> 4, divisors |-> {d02, d13},
             s1 |-> SurdDiv(d12_2, d02),
             s2 |-> SurdDiv(d12_2, d13)]

\* qwtBezierScales with the scales 1/6 and 1/3 of the first branch exchanged
qwtBezierScales_thirds(p0, p1, p2, p3) ==
    LET d02 == qwtLineLength(p0, p2)
        d13 == qwtLineLength(p1, p3)
        d12_2 == SurdScale(Rat(1, 2), qwtLineLength(p1, p2))
        b1 == SurdLess(SurdScale(Rat(1, 6), d02), d12_2)
        b2 == SurdLess(SurdScale(Rat(1, 6), d13), d12_2)
    IN  IF b1 /\ b2 THEN
            [b1 |-> b1, b2 |-> b2, branch |-> 1, divisors |-> {},
             s1 |-> IF p0 # p1 THEN Surd(Rat(1, 3), 1) ELSE Surd(Rat(1, 6), 1),
             s2 |-> IF p2 # p3 THEN Surd(Rat(1, 3), 1) ELSE Surd(Rat(1, 6), 1)]
        ELSE IF ~b1 /\ b2 THEN
            [b1 |-> b1, b2 |-> b2, branch |-> 2, divisors |-> {d02},
             s1 |-> SurdDiv(d12_2, d02),
             s2 |-> SurdDiv(d12_2, d02)]
        ELSE IF b1 /\ ~b2 THEN
            [b1 |-> b1, b2 |-> b2, branch |-> 3, divisors |-> {d13},
             s1 |-> SurdDiv(d12_2, d13),
             s2 |-> SurdDiv(d12_2, d13)]
        ELSE
            [b1 |-> b1, b2 |-> b2, branch |-> 4, divisors |-> {d02, d13},
             s1 |-> SurdDiv(d12_2, d02),
             s2 |-> SurdDiv(d12_2, d13)]

\* lines 147-175 of qwtBezierInterval: the two conditions, the branch taken,
\* the scales, and the chord each division divides by
qwtBezierScales(p0, p1, p2, p3) ==
    LET d02 == qwtLineLength(p0, p2)
        d13 == qwtLineLength(p1, p3)
        d12_2 == SurdScale(Rat(1, 2), qwtLineLength(p1, p2))
        b1 == SurdLess(SurdScale(Rat(1, 6), d02), d12_2)
        b2 == SurdLess(SurdScale(Rat(1, 6), d13), d12_2)
    IN  IF b1 /\ b2 THEN
            [b1 |-> b1, b2 |-> b2, branch |-> 1, divisors |-> {},
             s1 |-> IF p0 # p1 THEN Surd(Rat(1, 6), 1) ELSE Surd(Rat(1, 3), 1),
             s2 |-> IF p2 # p3 THEN Surd(Rat(1, 6), 1) ELSE Surd(Rat(1, 3), 1)]
        ELSE IF ~b1 /\ b2 THEN
            [b1 |-> b1, b2 |-> b2, branch |-> 2, divisors |-> {d02},
             s1 |-> SurdDiv(d12_2, d02),
             s2 |-> SurdDiv(d12_2, d02)]
        ELSE IF b1 /\ ~b2 THEN
            [b1 |-> b1, b2 |-> b2, branch |-> 3, divisors |-> {d13},
             s1 |-> SurdDiv(d12_2, d13),
             s2 |-> SurdDiv(d12_2, d13)]
        ELSE
            [b1 |-> b1, b2 |-> b2, branch |-> 4, divisors |-> {d02, d13},
             s1 |-> SurdDiv(d12_2, d02),
             s2 |-> SurdDiv(d12_2, d13)]

qwtBezierInterval(p0, p1, p2, p3) ==
    LET sc == qwtBezierScales(p0, p1, p2, p3)
        y1 == NumAdd(NumOfRat(p1.y), NumOfSurd(SurdScale(RatSub(p2.y, p0.y), sc.s1)))
        y2 == NumAdd(NumOfRat(p2.y), NumOfSurd(SurdScale(RatSub(p1.y, p3.y), sc.s2)))
    IN  [minValue |-> NumScale(Int2Rat(3), y1), maxValue |-> NumScale(Int2Rat(3), y2)]

\* qwtBezierValue with s1 * s1 * p2.y as its last term
qwtBezierValue_square(p1, p2, interval, x) ==
    IF p2.x = p1.x THEN NaN
    ELSE
    LET s1 == RatDiv(RatSub(x, p1.x), RatSub(p2.x, p1.x))
        s2 == RatSub(One, s1)
        a1 == NumScale(s1, interval.minValue)
        a2 == NumScale(RatMul(s1, s1), interval.maxValue)
        a3 == NumOfRat(RatMul(RatMul(s1, s1), p2.y))
    IN  NumAdd(NumScale(s2,
                 NumAdd(NumScale(s2,
                          NumAdd(NumOfRat(RatMul(s2, p1.y)), a1)),
                        a2)),
               a3)

qwtBezierValue(p1, p2, interval, x) ==
    IF p2.x = p1.x THEN NaN
    ELSE
    LET s1 == RatDiv(RatSub(x, p1.x), RatSub(p2.x, p1.x))
        s2 == RatSub(One, s1)
        a1 == NumScale(s1, interval.minValue)
        a2 == NumScale(RatMul(s1, s1), interval.maxValue)
        a3 == NumOfRat(RatMul(RatMul(RatMul(s1, s1), s1), p2.y))
    IN  NumAdd(NumScale(s2,
                 NumAdd(NumScale(s2,
                          NumAdd(NumOfRat(RatMul(s2, p1.y)), a1)),
                        a2)),
               a3)

----------------------------------------------------------------------------
(* qwtBezierInterval as a function of four points.                         *)

IvPoints == {Pt(x, y) : x \in 0..IvMaxX, y \in 0..IvMaxY}

NoResult == [scales |-> [b1 |-> FALSE, b2 |-> FALSE, branch |-> 0, divisors |-> {},
                         s1 |-> NotFinite, s2 |-> NotFinite],
             interval |-> [minValue |-> NaN, maxValue |-> NaN]]

NoInterval == [minValue |-> NaN, maxValue |-> NaN]

BezierIdle ==
    /\ bpc = "idle"
    /\ points = <<>>
    /\ numPoints = 0
    /\ i = 0
    /\ j = 0
    /\ intv = NoInterval
    /\ fittedPoints = <<>>
    /\ bresult = <<>>
    /\ caller = "qwtFitBezier"
    /\ fma = FALSE

\* the spline state object (qwt_bezier_spline.h): the points loaded by
\* setPoints and what isValid() reports; reset() empties it
IdleSpline == [points |-> <<>>, valid |-> FALSE]

\* both fitters as their default constructors leave them, no call in progress
FittersIdle ==
    /\ f1size = 250 /\ f1req = 250
    /\ f2size = 250 /\ f2req = 250
    /\ spline = IdleSpline
    /\ sreset = TRUE
    /\ spc = "idle"
    /\ spoints = <<>>
    /\ si = 0
    /\ sfitted = <<>>
    /\ sresult = <<>>

IntervalIdle ==
    /\ ip = <<Pt(0, 0), Pt(0, 0), Pt(0, 0), Pt(0, 0)>>
    /\ ires = NoResult
    /\ ipc = "done"

InitInterval ==
    /\ ip \in IvPoints \X IvPoints \X IvPoints \X IvPoints
    /\ ires = NoResult
    /\ ipc = "call"
    /\ BezierIdle
    /\ FittersIdle

CallBezierInterval ==
    /\ ipc = "call"
    /\ ires' = [scales |-> qwtBezierScales(ip[1], ip[2], ip[3], ip[4]),
                interval |-> qwtBezierInterval(ip[1], ip[2], ip[3], ip[4])]
    /\ ipc' = "done"
    /\ UNCHANGED <<ip, bezVars, sizeVars, splineVars, fitVars, buildVars>>

NextInterval == CallBezierInterval

SpecInterval == InitInterval /\ [][NextInterval]_vars

----------------------------------------------------------------------------
(* qwtFitBezier, one action per step of its code.                          *)

\* the input polygons: any points when there are at most two of them,
\* strictly increasing x from three points on (the caller's obligation)
RECURSIVE Ascending(_)
\* the elements of a finite set of integers, in increasing order
Ascending(S) ==
    IF S = {} THEN <<>>
    ELSE LET m == CHOOSE a \in S : \A b \in S : a <= b
         IN  <<m>> \o Ascending(S \ {m})

GridPoints(xs, ys) == {Pt(x, y) : x \in xs, y \in ys}

ShortPolygons(xs, ys) ==
    {<<>>} \cup {<<p>> : p \in GridPoints(xs, ys)}
           \cup {<<p, q>> : p \in GridPoints(xs, ys), q \in GridPoints(xs, ys)}

IncreasingPolygons(xs, ys, maxlen) ==
    UNION {{[k \in 1..Cardinality(S) |-> Pt(Ascending(S)[k], y[k])] :
               y \in [1..Cardinality(S) -> ys]} :
           S \in {T \in SUBSET xs : Cardinality(T) >= 3 /\ Cardinality(T) <= maxlen}}

IsIncreasing(p) == \A k \in 1..(Len(p) - 1) : RatLess(p[k].x, p[k + 1].x)

\* p[k] of the code, k counted from 0
At(p, k) == p[k + 1]

\* x1 + i * delta of lines 206-208 and 215
SampleX(p, n, k) ==
    LET x1 == p[1].x
        x2 == p[Len(p)].x
        delta == RatDiv(RatSub(x2, x1), Int2Rat(n - 1))
    IN  RatAdd(x1, RatMul(Int2Rat(k), delta))

RECURSIVE AdvanceCursor_geq(_, _, _)
\* AdvanceCursor with x >= p[j + 1].x() as the loop condition
AdvanceCursor_geq(p, c, x) ==
    IF c + 1 >= Len(p) THEN c
    ELSE IF RatLeq(At(p, c + 1).x, x) THEN AdvanceCursor_geq(p, c + 1, x)
    ELSE c

RECURSIVE AdvanceCursor(_, _, _)
\* while ( x > p[j + 1].x() ) j++ : the cursor the loop stops at, or
\* Len(p) - 1 when it would read p[Len(p)], past the end of the array
AdvanceCursor(p, c, x) ==
    IF c + 1 >= Len(p) THEN c
    ELSE IF RatLess(At(p, c + 1).x, x) THEN AdvanceCursor(p, c + 1, x)
    ELSE c

\* SegmentInterval with p[j] in the place of the left neighbour p[j - 1]
SegmentInterval_noleft(p, c) ==
    LET j2 == qMin(Len(p) - 1, c + 2)
    IN  qwtBezierInterval(At(p, c), At(p, c), At(p, c + 1), At(p, j2))

\* lines 222-223: the interval of segment c
SegmentInterval(p, c) ==
    LET j2 == qMin(Len(p) - 1, c + 2)
    IN  qwtBezierInterval(At(p, c - 1), At(p, c), At(p, c + 1), At(p, j2))

\* lines 198-212
FitBezierEnter ==
    /\ bpc = "call"
    /\ IF Len(points) <= 2
       THEN /\ bresult' = points
            /\ bpc' = "done"
            /\ UNCHANGED <<i, j, intv, fittedPoints>>
       ELSE /\ intv' = qwtBezierInterval(At(points, 0), At(points, 0),
                                         At(points, 1), At(points, 2))
            /\ fittedPoints' = <<>>
            /\ i' = 0
            /\ j' = 0
            /\ bpc' = "loop"
            /\ UNCHANGED bresult
    /\ UNCHANGED <<points, numPoints, caller, ivVars, sizeVars, splineVars, fitVars,
                   buildVars>>

\* lines 213-229: one iteration of the loop
FitBezierStep ==
    /\ bpc = "loop"
    /\ i < numPoints
    /\ LET x == SampleX(points, numPoints, i)
           crossed == RatLess(At(points, j + 1).x, x)
           c == IF crossed THEN AdvanceCursor(points, j, x) ELSE j
       IN  IF c + 1 >= Len(points)
           THEN /\ bpc' = "ub"
                /\ j' = c
                /\ UNCHANGED <<i, intv, fittedPoints>>
           ELSE LET iv == IF crossed THEN SegmentInterval(points, c) ELSE intv
                    y == qwtBezierValue(At(points, c), At(points, c + 1), iv, x)
                IN  /\ j' = c
                    /\ intv' = iv
                    /\ fittedPoints' = Append(fittedPoints, [x |-> x, y |-> y])
                    /\ i' = i + 1
                    /\ bpc' = "loop"
    /\ UNCHANGED <<points, numPoints, bresult, caller, ivVars, sizeVars, splineVars, fitVars,
                   buildVars>>

\* line 231
FitBezierReturn ==
    /\ bpc = "loop"
    /\ i >= numPoints
    /\ bresult' = fittedPoints
    /\ bpc' = "done"
    /\ UNCHANGED <<points, numPoints, i, j, intv, fittedPoints, caller, ivVars, sizeVars,
                   splineVars, fitVars, buildVars>>

BezierInputs == ShortPolygons(0..MaxX, YCoords) \cup IncreasingPolygons(0..MaxX, YCoords, MaxPts)

\* the scenario of the specification: 5 points, 9 samples
Scenario == <<Pt(0, 0), Pt(1, 2), Pt(2, 0), Pt(3, 2), Pt(4, 0)>>
BezierCalls ==
    (BezierInputs \X (2..MaxSamples)) \cup {<<Scenario, 9>>}

InitBezier ==
    /\ \E c \in BezierCalls : points = c[1] /\ numPoints = c[2]
    /\ bpc = "call"
    /\ i = 0
    /\ j = 0
    /\ intv = NoInterval
    /\ fittedPoints = <<>>
    /\ bresult = <<>>
    /\ caller = "qwtFitBezier"
    /\ fma = FALSE
    /\ IntervalIdle
    /\ FittersIdle

NextBezier == FitBezierEnter \/ FitBezierStep \/ FitBezierReturn

SpecBezier == InitBezier /\ [][NextBezier]_vars

----------------------------------------------------------------------------
(* IEEE 754 binary64 (double) arithmetic on the sample grid.  A value      *)
(* m * 2^e >= 0 is the pair of m and e with m odd, or zero; the natural    *)
(* number m is the sequence of its digits to the base 2^15, lowest first.  *)
(* Every operation computes the exact result and rounds it to nearest,     *)
(* ties to even, at 53 bits; the values of the grid are far from overflow  *)
(* and underflow.                                                          *)

\* the bits of the significand of a double
Precision == 53

Base == 2^15

RECURSIVE BitLength(_)
\* the number of bits of the natural number n
BitLength(n) == IF n = 0 THEN 0 ELSE 1 + BitLength(n \div 2)

RECURSIVE BigOfInt(_)
\* the digits of the natural number n
BigOfInt(n) == IF n = 0 THEN <<>> ELSE <<n % Base>> \o BigOfInt(n \div Base)

RECURSIVE Trim(_)
\* without high zero digits
Trim(m) == IF m = <<>> \/ m[Len(m)] # 0 THEN m ELSE Trim(SubSeq(m, 1, Len(m) - 1))

RECURSIVE BigMul(_, _, _)
\* m * k + carry for 0 <= k, carry < Base
BigMul(m, k, carry) ==
    IF m = <<>> THEN BigOfInt(carry)
    ELSE LET v == Head(m) * k + carry
         IN  <<v % Base>> \o BigMul(Tail(m), k, v \div Base)

RECURSIVE BigAdd(_, _, _)
\* a + b + carry
BigAdd(a, b, carry) ==
    IF a = <<>> /\ b = <<>> THEN BigOfInt(carry)
    ELSE LET x == IF a = <<>> THEN 0 ELSE Head(a)
             y == IF b = <<>> THEN 0 ELSE Head(b)
             v == x + y + carry
         IN  <<v % Base>> \o BigAdd(IF a = <<>> THEN a ELSE Tail(a),
                                    IF b = <<>> THEN b ELSE Tail(b), v \div Base)

\* m * 2^s
BigShiftLeft(m, s) ==
    IF m = <<>> THEN m
    ELSE [q \in 1..(s \div 15) |-> 0] \o Trim(BigMul(m, 2^(s % 15), 0))

\* m \div 2^s
BigShiftRight(m, s) ==
    IF s \div 15 >= Len(m) THEN <<>>
    ELSE LET d == SubSeq(m, s \div 15 + 1, Len(m))
             r == s % 15
         IN  Trim([k \in 1..Len(d) |->
                      (d[k] \div 2^r)
                      + (IF k < Len(d) THEN (d[k + 1] % 2^r) * 2^(15 - r) ELSE 0)])

BigBitLength(m) == IF m = <<>> THEN 0 ELSE 15 * (Len(m) - 1) + BitLength(m[Len(m)])

\* bit k of m, the lowest bit being bit 0
BigBit(m, k) == IF k \div 15 >= Len(m) THEN 0 ELSE (m[k \div 15 + 1] \div 2^(k % 15)) % 2

\* one of the bits 0 .. k-1 of m is set
BigLowBits(m, k) == \E q \in 0..(k - 1) : BigBit(m, q) = 1

\* the number of low zero bits of m # 0
BigLowZeros(m) == CHOOSE k \in 0..BigBitLength(m) : BigBit(m, k) = 1 /\ ~BigLowBits(m, k)

RECURSIVE BigLessFrom(_, _, _)
\* a < b for a and b of the same length, compared from digit k down
BigLessFrom(a, b, k) ==
    IF k = 0 THEN FALSE
    ELSE IF a[k] # b[k] THEN a[k] < b[k]
    ELSE BigLessFrom(a, b, k - 1)

BigLess(a, b) == IF Len(a) # Len(b) THEN Len(a) < Len(b) ELSE BigLessFrom(a, b, Len(a))

\* the value m * 2^e in its one representation
Dy(m, e) ==
    IF Trim(m) = <<>> THEN [m |-> <<>>, e |-> 0]
    ELSE LET z == BigLowZeros(Trim(m))
         IN  [m |-> BigShiftRight(Trim(m), z), e |-> e + z]

DyOfInt(n) == Dy(BigOfInt(n), 0)

\* the digits of a at the exponent e <= a.e
Aligned(a, e) == BigShiftLeft(a.m, a.e - e)

\* the exact product a * k, k a natural number below 2^15
DyMulInt(a, k) == Dy(BigMul(a.m, k, 0), a.e)

\* the exact sum a + b
DyAdd(a, b) ==
    LET e == qMin(a.e, b.e)
    IN  Dy(BigAdd(Aligned(a, e), Aligned(b, e), 0), e)

\* a < b
DyLess(a, b) ==
    LET e == qMin(a.e, b.e)
    IN  BigLess(Aligned(a, e), Aligned(b, e))

\* round to nearest, ties to even, at Precision bits
RoundNearestEven(a) ==
    IF BigBitLength(a.m) <= Precision THEN a
    ELSE LET k == BigBitLength(a.m) - Precision
             kept == BigShiftRight(a.m, k)
             half == BigBit(a.m, k - 1) = 1
             sticky == BigLowBits(a.m, k - 1)
             up == half /\ (sticky \/ BigBit(kept, 0) = 1)
         IN  Dy(IF up THEN BigAdd(kept, <<1>>, 0) ELSE kept, a.e + k)

RECURSIVE QuotientDigits(_, _, _)
\* s further digits of a quotient with remainder r and divisor d < 2^15
QuotientDigits(r, d, s) ==
    IF s = 0 THEN <<>>
    ELSE QuotientDigits((r * Base) % d, d, s - 1) \o <<(r * Base) \div d>>

RECURSIVE QuotientRest(_, _, _)
\* the remainder after those s digits
QuotientRest(r, d, s) == IF s = 0 THEN r ELSE QuotientRest((r * Base) % d, d, s - 1)

\* the double n / d for natural numbers n and 0 < d < 2^15: the quotient to
\* more than Precision + 2 bits, below them a bit that is set when the
\* division leaves a remainder, rounded
DyDivInt(n, d) ==
    LET s == (Precision + 2 + BitLength(d)) \div 15 + 1
        q == QuotientDigits(n % d, d, s) \o BigOfInt(n \div d)
        jam == IF QuotientRest(n % d, d, s) = 0 THEN 0 ELSE 1
    IN  RoundNearestEven(Dy(BigMul(q, 2, jam), 0 - (15 * s + 1)))

\* x1 + i * delta of line 215, with delta of line 208, in binary64; a build
\* that contracts the expression rounds x1 + i * delta once
SampleXD(p, n, k, fused) ==
    LET x1 == p[1].x[1]
        x2 == p[Len(p)].x[1]
        delta == DyDivInt(x2 - x1, n - 1)
    IN  IF fused
        THEN RoundNearestEven(DyAdd(DyOfInt(x1), DyMulInt(delta, k)))
        ELSE RoundNearestEven(DyAdd(DyOfInt(x1), RoundNearestEven(DyMulInt(delta, k))))

RECURSIVE AdvanceCursorD(_, _, _)
\* while ( x > p[j + 1].x() ) j++ in binary64
AdvanceCursorD(p, c, x) ==
    IF c + 1 >= Len(p) THEN c
    ELSE IF DyLess(DyOfInt(At(p, c + 1).x[1]), x) THEN AdvanceCursorD(p, c + 1, x)
    ELSE c

\* qwtBezierValue in binary64 at an end of the segment: s1 = 0 gives p1.y
\* and s1 = 1 gives p2.y, exactly; the value inside the segment is not
\* followed
qwtBezierValueD(p1, p2, x) ==
    IF x = DyOfInt(p2.x[1]) THEN [exact |-> TRUE, y |-> p2.y]
    ELSE IF x = DyOfInt(p1.x[1]) THEN [exact |-> TRUE, y |-> p1.y]
    ELSE [exact |-> FALSE, y |-> Zero]

\* the interval of lines 210 and 223 in binary64: the segment it was
\* computed for
SegmentIntervalD(c) == [minValue |-> [segment |-> c], maxValue |-> [segment |-> c]]

\* lines 198-212
FitBezierEnterD ==
    /\ bpc = "call"
    /\ IF Len(points) <= 2
       THEN /\ bresult' = points
            /\ bpc' = "done"
            /\ UNCHANGED <<i, j, intv, fittedPoints>>
       ELSE /\ intv' = SegmentIntervalD(0)
            /\ fittedPoints' = <<>>
            /\ i' = 0
            /\ j' = 0
            /\ bpc' = "loop"
            /\ UNCHANGED bresult
    /\ UNCHANGED <<points, numPoints, caller, ivVars, sizeVars, splineVars, fitVars,
                   buildVars>>

\* lines 213-229: one iteration of the loop.  A read of p[psize] at lines 217
\* and 219 is outside the array: the call ends there, or it goes on with
\* whatever the read gave, the cursor on the last point
FitBezierStepD ==
    /\ bpc = "loop"
    /\ i < numPoints
    /\ LET x == SampleXD(points, numPoints, i, fma)
           outside == j + 1 >= Len(points)
           crossed == ~outside /\ DyLess(DyOfInt(At(points, j + 1).x[1]), x)
           c == IF crossed THEN AdvanceCursorD(points, j, x) ELSE j
       IN  IF outside \/ c + 1 >= Len(points)
           THEN \/ /\ bpc' = "ub"
                   /\ j' = c
                   /\ UNCHANGED <<i, intv, fittedPoints>>
                \/ /\ bpc' = "loop"
                   /\ j' = Len(points) - 1
                   /\ intv' = SegmentIntervalD(Len(points) - 1)
                   /\ fittedPoints' =
                          Append(fittedPoints, [x |-> x, y |-> [exact |-> FALSE, y |-> Zero]])
                   /\ i' = i + 1
           ELSE /\ j' = c
                /\ intv' = IF crossed THEN SegmentIntervalD(c) ELSE intv
                /\ fittedPoints' =
                       Append(fittedPoints,
                              [x |-> x,
                               y |-> qwtBezierValueD(At(points, c), At(points, c + 1), x)])
                /\ i' = i + 1
                /\ bpc' = "loop"
    /\ UNCHANGED <<points, numPoints, bresult, caller, ivVars, sizeVars, splineVars, fitVars,
                   buildVars>>

\* line 231
FitBezierReturnD ==
    /\ bpc = "loop"
    /\ i >= numPoints
    /\ bresult' = fittedPoints
    /\ bpc' = "done"
    /\ UNCHANGED <<points, numPoints, i, j, intv, fittedPoints, caller, ivVars, sizeVars,
                   splineVars, fitVars, buildVars>>

\* the calls followed in binary64: three points with x among 0, 1, 2, 7 and
\* the sample counts 2, 10, 26, 50 and 250, the default spline size
DoubleInputs == IncreasingPolygons({0, 1, 2, 7}, 0..1, 3)
DoubleCounts == {2, 10, 26, 50, 250}

DoubleCalls == (DoubleInputs \X DoubleCounts) \cup {<<Scenario, 9>>}

InitDouble ==
    /\ \E c \in DoubleCalls : points = c[1] /\ numPoints = c[2]
    /\ fma \in BOOLEAN
    /\ bpc = "call"
    /\ i = 0
    /\ j = 0
    /\ intv = NoInterval
    /\ fittedPoints = <<>>
    /\ bresult = <<>>
    /\ caller = "qwtFitBezier"
    /\ IntervalIdle
    /\ FittersIdle

NextDouble == FitBezierEnterD \/ FitBezierStepD \/ FitBezierReturnD

SpecDouble == InitDouble /\ [][NextDouble]_vars

----------------------------------------------------------------------------
(* The two fitter classes.  No two calls overlap: a call starts when no    *)
(* other call is in progress.                                              *)

\* the arguments of the constructors and of setSplineSize
SizeArgs == {-1, 9, MaxSize, 250}

\* the polygons handed to the fitters
FitterInputs ==
    ShortPolygons(0..1, 0..1) \cup IncreasingPolygons(0..2, 0..1, 3)

\* the sample counts of direct calls of qwtFitBezier
DirectCounts == {-1, 0, 1, 2, 3}

\* setSplineSize with a floor of 1 in place of 10
setSplineSize_floor1(splineSize) == qMax(splineSize, 1)

\* QwtBezierSplineCurveFitter::setSplineSize: the new d_data->splineSize
setSplineSize(splineSize) == qMax(splineSize, 10)

\* QwtBezierSplineCurveFitter2::setSplineSize: the new d_data->splineSize
setSplineSize2(splineSize) == qMax(splineSize, 10)

\* QwtBezierSpline::setPoints, isValid, value and reset, as the fitter uses
\* them: setPoints loads the points and decides validity, value(v) is a
\* function of the loaded points and v, reset unloads
SplineSetPoints(pts, ok) == [points |-> pts, valid |-> ok]
SplineIsValid(sp) == sp.valid
SplineValue(sp, v) == [of |-> sp.points, at |-> v]
SplineReset(sp) == IdleSpline

NoCall == bpc = "idle" /\ spc = "idle"

\* the constructors: PrivateData sets 250, then setSplineSize( splineSize )
Init ==
    /\ f1req \in SizeArgs
    /\ f1size = setSplineSize(f1req)
    /\ f2req \in SizeArgs
    /\ f2size = setSplineSize2(f2req)
    /\ spline = IdleSpline
    /\ sreset = TRUE
    /\ spc = "idle"
    /\ spoints = <<>>
    /\ si = 0
    /\ sfitted = <<>>
    /\ sresult = <<>>
    /\ BezierIdle
    /\ IntervalIdle

SetSplineSize1(n) ==
    /\ NoCall
    /\ f1size' = setSplineSize(n)
    /\ f1req' = n
    /\ UNCHANGED <<f2size, f2req, splineVars, fitVars, bezVars, ivVars, buildVars>>

SetSplineSize2(n) ==
    /\ NoCall
    /\ f2size' = setSplineSize2(n)
    /\ f2req' = n
    /\ UNCHANGED <<f1size, f1req, splineVars, fitVars, bezVars, ivVars, buildVars>>

\* setSpline: assign, then reset
SetSpline(sp) ==
    /\ NoCall
    /\ spline' = SplineReset(sp)
    /\ sreset' = TRUE
    /\ UNCHANGED <<sizeVars, fitVars, bezVars, ivVars, buildVars>>

\* fitCurve passing on only the inputs of size <= 1
FitCurve1_atMostOne(pts, ok) ==
    /\ NoCall
    /\ spoints' = pts
    /\ IF Len(pts) <= 1
       THEN /\ sresult' = pts
            /\ spc' = "done"
            /\ UNCHANGED <<spline, sreset, si, sfitted>>
       ELSE /\ spline' = SplineSetPoints(pts, ok)
            /\ sreset' = FALSE
            /\ IF ~SplineIsValid(spline')
               THEN /\ sresult' = pts
                    /\ spc' = "done"
                    /\ UNCHANGED <<si, sfitted>>
               ELSE /\ f1size <= MaxSize
                    /\ sfitted' = <<>>
                    /\ si' = 0
                    /\ spc' = "sampling"
                    /\ UNCHANGED sresult
    /\ UNCHANGED <<sizeVars, bezVars, ivVars, buildVars>>

\* QwtBezierSplineCurveFitter::fitCurve and fitSpline up to the loop
\* (lines 94-114); ok is what isValid() reports after setPoints
FitCurve1(pts, ok) ==
    /\ NoCall
    /\ spoints' = pts
    /\ IF Len(pts) <= 2
       THEN /\ sresult' = pts
            /\ spc' = "done"
            /\ UNCHANGED <<spline, sreset, si, sfitted>>
       ELSE /\ spline' = SplineSetPoints(pts, ok)
            /\ sreset' = FALSE
            /\ IF ~SplineIsValid(spline')
               THEN /\ sresult' = pts
                    /\ spc' = "done"
                    /\ UNCHANGED <<si, sfitted>>
               ELSE /\ f1size <= MaxSize
                    /\ sfitted' = <<>>
                    /\ si' = 0
                    /\ spc' = "sampling"
                    /\ UNCHANGED sresult
    /\ UNCHANGED <<sizeVars, bezVars, ivVars, buildVars>>

\* lines 116-125: one iteration of the loop of fitSpline
FitSplineStep ==
    /\ spc = "sampling"
    /\ si < f1size
    /\ LET v == SampleX(spoints, f1size, si)
           sv == SplineValue(spline, v)
       IN  sfitted' = Append(sfitted, [x |-> v, y |-> sv])
    /\ si' = si + 1
    /\ UNCHANGED <<spc, spoints, sresult, splineVars, sizeVars, bezVars, ivVars, buildVars>>

\* lines 126-128
FitSplineFinish ==
    /\ spc = "sampling"
    /\ si >= f1size
    /\ spline' = SplineReset(spline)
    /\ sreset' = TRUE
    /\ sresult' = sfitted
    /\ spc' = "done"
    /\ UNCHANGED <<spoints, si, sfitted, sizeVars, bezVars, ivVars, buildVars>>

\* QwtBezierSplineCurveFitter2::fitCurve (lines 284-291)
FitCurve2(pts) ==
    /\ NoCall
    /\ points' = pts
    /\ caller' = "fitCurve"
    /\ IF Len(pts) <= 2
       THEN /\ bresult' = pts
            /\ bpc' = "done"
            /\ UNCHANGED numPoints
       ELSE /\ f2size <= MaxSize
            /\ numPoints' = f2size
            /\ bpc' = "call"
            /\ UNCHANGED bresult
    /\ UNCHANGED <<i, j, intv, fittedPoints, sizeVars, splineVars, fitVars, ivVars, buildVars>>

\* a direct call qwtFitBezier( pts, n )
CallFitBezier(pts, n) ==
    /\ NoCall
    /\ Len(pts) >= 3 => n >= 2
    /\ points' = pts
    /\ numPoints' = n
    /\ caller' = "qwtFitBezier"
    /\ bpc' = "call"
    /\ UNCHANGED <<i, j, intv, fittedPoints, bresult, sizeVars, splineVars, fitVars, ivVars, buildVars>>

\* the caller takes the polygon returned
ReturnToCaller ==
    /\ bpc = "done" \/ spc = "done"
    /\ bpc' = "idle"
    /\ points' = <<>>
    /\ numPoints' = 0
    /\ i' = 0
    /\ j' = 0
    /\ intv' = NoInterval
    /\ fittedPoints' = <<>>
    /\ bresult' = <<>>
    /\ caller' = "qwtFitBezier"
    /\ spc' = "idle"
    /\ spoints' = <<>>
    /\ si' = 0
    /\ sfitted' = <<>>
    /\ sresult' = <<>>
    /\ UNCHANGED <<sizeVars, splineVars, ivVars, buildVars>>

Next ==
    \/ \E n \in SizeArgs : SetSplineSize1(n)
    \/ \E n \in SizeArgs : SetSplineSize2(n)
    \/ \E sp \in {IdleSpline} \cup {SplineSetPoints(pts, TRUE) : pts \in FitterInputs} :
           SetSpline(sp)
    \/ \E pts \in FitterInputs, ok \in BOOLEAN : FitCurve1(pts, ok)
    \/ FitSplineStep
    \/ FitSplineFinish
    \/ \E pts \in FitterInputs : FitCurve2(pts)
    \/ \E pts \in FitterInputs, n \in DirectCounts : CallFitBezier(pts, n)
    \/ FitBezierEnter
    \/ FitBezierStep
    \/ FitBezierReturn
    \/ ReturnToCaller

Spec == Init /\ [][Next]_vars

----------------------------------------------------------------------------
(* Claims about qwtBezierInterval, under SpecInterval.                     *)

Sixth == Surd(Rat(1, 6), 1)
Third == Surd(Rat(1, 3), 1)

\* a surd s with 0 < s <= q, q a surd
SurdIn(s, q) == s.fin /\ RatLess(Zero, s.c) /\ ~SurdLess(q, s)

\* the squared distance of two points, in integers
Dist2(p, q) ==
    LET dx == p.x[1] - q.x[1]
        dy == p.y[1] - q.y[1]
    IN  dx * dx + dy * dy

\* C6, as stated: every call with p0 = p1 and p1 # p2 takes the first branch
\* (both conditions true) with s1 = 1/3 and divides by no zero chord, wherever
\* p3 lies.
C6_AlwaysFirstBranch ==
    (ipc = "done" /\ ip[1] = ip[2] /\ ip[2] # ip[3]) =>
        /\ ires.scales.branch = 1
        /\ ires.scales.s1 = Third
        /\ \A d \in ires.scales.divisors : d.c # Zero

\* C6, amended: a call with p0 = p1 and p1 # p2 has b1 true and divides by no
\* zero chord; it takes the first branch with s1 = 1/3 exactly when
\* d(p1,p3) < 3 d(p1,p2), and otherwise the branch b1 /\ ~b2 with
\* s1 = s2 = (d(p1,p2) / 2) / d(p1,p3) <= 1/6.
C6_FirstBranchIffNear ==
    (ipc = "done" /\ ip[1] = ip[2] /\ ip[2] # ip[3]) =>
        /\ ires.scales.b1
        /\ \A d \in ires.scales.divisors : d.fin /\ RatLess(Zero, d.c)
        /\ IF Dist2(ip[2], ip[4]) < 9 * Dist2(ip[2], ip[3])
           THEN ires.scales.branch = 1 /\ ires.scales.s1 = Third
           ELSE /\ ires.scales.branch = 3
                /\ ires.scales.s1 = ires.scales.s2
                /\ SurdIn(ires.scales.s1, Sixth)
                /\ 4 * Dist2(ip[2], ip[4]) * ires.scales.s1.c[1] * ires.scales.s1.c[1]
                     * ires.scales.s1.r
                   = Dist2(ip[2], ip[3]) * ires.scales.s1.c[2] * ires.scales.s1.c[2]

\* C6 witness: a call with p0 = p1 # p2 that took the first branch with s1 = 1/3
C6_Witness ==
    /\ ipc = "done" /\ ip[1] = ip[2] /\ ip[2] # ip[3]
    /\ ires.scales.branch = 1 /\ ires.scales.s1 = Third

\* C10: when p1.x # p2.x, every chord a branch divides by is strictly positive,
\* every scale computed by a division is at most 1/6, and both scales lie in
\* (0, 1/3].
C10_ScalesBounded ==
    (ipc = "done" /\ ip[2].x # ip[3].x) =>
        /\ \A d \in ires.scales.divisors : d.fin /\ RatLess(Zero, d.c)
        /\ ires.scales.branch \in {2, 3, 4} =>
               SurdIn(ires.scales.s1, Sixth) /\ SurdIn(ires.scales.s2, Sixth)
        /\ SurdIn(ires.scales.s1, Third) /\ SurdIn(ires.scales.s2, Third)
        /\ ires.interval.minValue.fin /\ ires.interval.maxValue.fin

\* C10 witness: a call with p1.x # p2.x whose last branch divided by both chords
C10_Witness ==
    /\ ipc = "done" /\ ip[2].x # ip[3].x
    /\ ires.scales.branch = 4
    /\ ires.scales.s1 # ires.scales.s2

----------------------------------------------------------------------------
(* Claims about qwtFitBezier in exact arithmetic, under SpecBezier.        *)

\* the segment e with p[e].x < x <= p[e + 1].x, or 0 when x = p[0].x
Enclosing(p, x) ==
    IF x = p[1].x THEN 0
    ELSE CHOOSE e \in 0..(Len(p) - 2) :
             RatLess(At(p, e).x, x) /\ RatLeq(x, At(p, e + 1).x)

\* the interval of segment e computed from its four neighbours
FreshInterval(p, e) ==
    qwtBezierInterval(At(p, qMax(e - 1, 0)), At(p, e), At(p, e + 1),
                      At(p, qMin(Len(p) - 1, e + 2)))

\* sample k (from 0) of a loop that recomputes the interval for every sample
FreshSample(p, n, k) ==
    LET x == SampleX(p, n, k)
        e == Enclosing(p, x)
    IN  [x |-> x, y |-> qwtBezierValue(At(p, e), At(p, e + 1), FreshInterval(p, e), x)]

C8_StraightLine ==
    (bpc = "done" /\ numPoints = 5 /\ points = <<Pt(0, 0), Pt(1, 1), Pt(2, 2)>>) =>
        bresult = [k \in 1..5 |-> [x |-> Rat(k - 1, 2), y |-> NumOfRat(Rat(k - 1, 2))]]

\* C8 witness: that call has returned its 5 points
C8_Witness ==
    /\ bpc = "done" /\ numPoints = 5 /\ points = <<Pt(0, 0), Pt(1, 1), Pt(2, 2)>>
    /\ Len(bresult) = 5

\* C9: the cursor starts at 0 and never decreases; at every call of the
\* evaluator 0 <= j <= n - 2 and p[j].x <= x <= p[j+1].x with
\* p[j].x < p[j+1].x, the indices read lie in 0..n-1, and no read is out of
\* bounds.
C9_CursorState ==
    /\ bpc # "ub"
    /\ (bpc = "loop" /\ i = 0) => j = 0
    /\ (bpc = "loop" /\ i > 0) =>
         /\ 0 <= j /\ j <= Len(points) - 2
         /\ RatLeq(At(points, j).x, fittedPoints[i].x)
         /\ RatLeq(fittedPoints[i].x, At(points, j + 1).x)
         /\ RatLess(At(points, j).x, At(points, j + 1).x)
         /\ {qMax(j - 1, 0), j, j + 1, qMin(Len(points) - 1, j + 2)}
                \subseteq 0..(Len(points) - 1)
         /\ fittedPoints[i].y.fin

C9_Cursor == [](C9_CursorState) /\ [][bpc = "loop" => j' >= j]_vars

\* C9 witness: one sample moved the cursor over more than one segment
C9_Witness ==
    /\ bpc = "loop" /\ i >= 2 /\ j >= 2
    /\ RatLeq(fittedPoints[i - 1].x, At(points, j - 1).x)
    /\ RatLess(fittedPoints[i - 1].x, At(points, 1).x)


----------------------------------------------------------------------------
(* Claims about qwtFitBezier in binary64, under SpecDouble.                *)

\* the double of the x of an input point
InputX(pt) == DyOfInt(pt.x[1])

\* C4: on an input of at least 3 points with strictly increasing x and
\* m >= 2 samples, the polygon returned has m points, its first x is the first
\* input x, its last x is the last input x, and its x are strictly increasing.
C4_BoundaryPreserved ==
    (bpc = "done" /\ Len(points) >= 3) =>
        /\ Len(bresult) = numPoints
        /\ bresult[1].x = InputX(points[1])
        /\ bresult[Len(bresult)].x = InputX(points[Len(points)])
        /\ \A k \in 1..(Len(bresult) - 1) : DyLess(bresult[k].x, bresult[k + 1].x)

\* C7: every sample whose x is the x of an input point has the y of that
\* point; the first and the last point returned are the first and the last
\* input point.
C7_PassesThroughInputs ==
    (bpc = "done" /\ Len(points) >= 3) =>
        /\ \A k \in 1..Len(bresult) : \A q \in 1..Len(points) :
             bresult[k].x = InputX(points[q]) =>
                 bresult[k].y = [exact |-> TRUE, y |-> points[q].y]
        /\ bresult[1] = [x |-> InputX(points[1]), y |-> [exact |-> TRUE, y |-> points[1].y]]
        /\ bresult[Len(bresult)] =
               [x |-> InputX(points[Len(points)]),
                y |-> [exact |-> TRUE, y |-> points[Len(points)].y]]

\* C7 witness: the scenario (0,0), (1,2), (2,0), (3,2), (4,0) with 9 samples
\* has returned from (0,0) over (1,2) to (4,0)
C7_Witness ==
    /\ bpc = "done" /\ numPoints = 9 /\ points = Scenario
    /\ bresult[1] = [x |-> DyOfInt(0), y |-> [exact |-> TRUE, y |-> Int2Rat(0)]]
    /\ bresult[3] = [x |-> DyOfInt(1), y |-> [exact |-> TRUE, y |-> Int2Rat(2)]]
    /\ bresult[9] = [x |-> DyOfInt(4), y |-> [exact |-> TRUE, y |-> Int2Rat(0)]]

----------------------------------------------------------------------------
(* Claims about the fitter classes, under Spec.                            *)

\* C1: fitCurve of either fitter and qwtFitBezier return an input of 0, 1 or
\* 2 points as it is, whatever the sample count configured or passed.
C1_ShortInputUnchanged ==
    /\ (spc = "done" /\ Len(spoints) <= 2) => sresult = spoints
    /\ (bpc = "done" /\ Len(points) <= 2) => bresult = points

\* C1 witness: a fitter with a spline size of 250 has returned an input of 2
\* points
C1_Witness ==
    /\ spc = "done" /\ Len(spoints) = 2 /\ sresult = spoints
    /\ f1size = 250

\* C2: when a fitCurve call that loaded points with setPoints returns,
\* reset() has been called after the last setPoints and the spline holds no
\* points.
C2_ResetAfterEachFit ==
    (spc = "done" /\ Len(spoints) > 2) => (sreset /\ spline = IdleSpline)

\* C3: in both fitters splineSize() is max(n, 10) for the n of the latest
\* constructor or setSplineSize call: at least 10 always, exactly 10 for
\* n <= 9, and n for n >= 10.
C3_SplineSizeClamped ==
    /\ f1size >= 10 /\ f2size >= 10
    /\ (f1req <= 9 => f1size = 10) /\ (f1req >= 10 => f1size = f1req)
    /\ (f2req <= 9 => f2size = 10) /\ (f2req >= 10 => f2size = f2req)

\* C3 witness: setSplineSize(250) on a fitter whose size is 250 already, the
\* other fitter having been asked for 9
C3_Witness ==
    /\ f1req = 250 /\ f1size = 250
    /\ f2req = 9 /\ f2size = 10
    /\ ENABLED SetSplineSize1(250)

=============================================================================
